---- MODULE Spec2Model ----
(***************************************************************************)
(* Verification model of two programs of the repository:                   *)
(*   geometry/jarvis_algorithm.cpp          ConvexHull::getHull            *)
(*   geometry/line_segment_intersection.cpp SegmentIntersection::intersect *)
(* The two programs share nothing; each has its own specification and the *)
(* other program's variables stay idle in it:                              *)
(*   Spec      getHull on every vector of at most MaxN points of the grid  *)
(*             0..MaxCoord, and on the vector of the inline test;          *)
(*   DeepSpec  getHull on every vector of at most DeepN points of the grid *)
(*             0..DeepCoord (the same actions, longer inputs);             *)
(*   SegSpec   intersect on every four points of the grid 0..DeepCoord.    *)
(*                                                                         *)
(* Coordinates are C++ int.  The inputs drawn here are small, so every     *)
(* product and difference stays far inside the 32-bit range and no signed  *)
(* overflow occurs in the states explored.                                 *)
(***************************************************************************)
EXTENDS Integers, Sequences, FiniteSets

VARIABLES points, pc, leftmost, p, hull, p1, p2, p3, p4, segpc, ret

vars == <<points, pc, leftmost, p, hull, p1, p2, p3, p4, segpc, ret>>
hullVars == <<points, pc, leftmost, p, hull>>
segVars == <<p1, p2, p3, p4, segpc, ret>>

(***************************************************************************)
(* Bounds of the explored inputs.                                          *)
(***************************************************************************)
MaxN == 4

MaxCoord == 1

DeepN == 6

DeepCoord == 2

\* struct Point { int x, y; }, on the grid of Spec
Point == [x : 0..MaxCoord, y : 0..MaxCoord]

\* struct Point { int x, y; }, on the grid of DeepSpec and SegSpec
DeepPoint == [x : 0..DeepCoord, y : 0..DeepCoord]

Origin == [x |-> 0, y |-> 0]

\* What an out-of-bounds read of the vector yields.  getHull never performs
\* one (see C5_MembershipAndIndexRange); only a broken walk can reach it.
Wild == [x |-> 0 - 1, y |-> 0 - 1]

\* The vector of the inline test, jarvis_algorithm.cpp:42.
TestPoints ==
    << [x |-> 0, y |-> 3], [x |-> 2, y |-> 2], [x |-> 1, y |-> 1],
       [x |-> 2, y |-> 1], [x |-> 3, y |-> 0], [x |-> 0, y |-> 0],
       [x |-> 3, y |-> 3] >>

\* The expected vector of the inline test, jarvis_algorithm.cpp:45.
TestExpected ==
    << [x |-> 0, y |-> 3], [x |-> 0, y |-> 0], [x |-> 3, y |-> 0],
       [x |-> 3, y |-> 3] >>

\* Storage available to the result vector.  It exceeds the length of every
\* input, so a walk that visits each index at most once never exhausts it.
HullCapacity == (IF DeepN > MaxN THEN DeepN ELSE MaxN) + 3

Range(s) == {s[k] : k \in 1..Len(s)}

(***************************************************************************)
(* ConvexHull                                                              *)
(***************************************************************************)
\* points.size()
size(pts) == Len(pts)

\* points[i], indices from 0 as in the source.
At(pts, i) == IF i \in 0..(size(pts) - 1) THEN pts[i + 1] ELSE Wild

\* orientation with the two non-zero classes exchanged.
orientation_Flipped(a, b, c) ==
    LET val == (b.y - a.y) * (c.x - b.x) - (b.x - a.x) * (c.y - b.y)
    IN  IF val = 0 THEN 0 ELSE IF val > 0 THEN 2 ELSE 1

\* ConvexHull::orientation: 0 collinear, 1 for val > 0, 2 for val < 0.
orientation(a, b, c) ==
    LET val == (b.y - a.y) * (c.x - b.x) - (b.x - a.x) * (c.y - b.y)
    IN  IF val = 0 THEN 0 ELSE IF val > 0 THEN 1 ELSE 2

\* The leftmost scan with <= for <: the last minimum wins.
RECURSIVE LeftmostScan_LastWins(_, _, _)
LeftmostScan_LastWins(pts, i, l) ==
    IF i >= size(pts) THEN l
    ELSE LeftmostScan_LastWins(pts, i + 1,
                               IF At(pts, i).x <= At(pts, l).x THEN i ELSE l)

\* The loop of lines 19-21, from index i on.
RECURSIVE LeftmostScan(_, _, _)
LeftmostScan(pts, i, l) ==
    IF i >= size(pts) THEN l
    ELSE LeftmostScan(pts, i + 1, IF At(pts, i).x < At(pts, l).x THEN i ELSE l)

\* Lines 18-21: int leftmost = 0; for (i = 1; ...) ...
Leftmost(pts) == LeftmostScan(pts, 1, 0)

\* Line 26: q = (p + 1) % points.size()
InitialQ(pts, pp) == (pp + 1) % size(pts)

\* The inner loop run one index too far (i <= points.size()).
ScanEnd_OffByOne(pts) == size(pts) + 1

\* The bound of the inner loop, line 27: i < points.size()
ScanEnd(pts) == size(pts)

\* The inner loop of lines 27-29, from index i on, with the running q.
RECURSIVE Scan(_, _, _, _)
Scan(pts, pp, i, q) ==
    IF i >= ScanEnd(pts) THEN q
    ELSE Scan(pts, pp, i + 1,
              IF orientation(At(pts, pp), At(pts, i), At(pts, q)) = 2
              THEN i ELSE q)

\* Lines 26-29: the vertex the walk moves to from index pp.
NextVertex(pts, pp) == Scan(pts, pp, 0, InitialQ(pts, pp))

\* The short-input test with 2 for 3.
TooFew_OffByOne(pts) == size(pts) < 2

\* Line 15: if (points.size() < 3) return {};
TooFew(pts) == size(pts) < 3

\* The do-while of lines 24-31 run to its end from vertex pp with result h:
\* the vector returned, or no return when storage runs out first.
RECURSIVE Walk(_, _, _, _)
Walk(pts, l, pp, h) ==
    IF Len(h) >= HullCapacity THEN [returned |-> FALSE, hull |-> h]
    ELSE LET q == NextVertex(pts, pp)
             h2 == Append(h, At(pts, pp))
         IN  IF q = l THEN [returned |-> TRUE, hull |-> h2]
             ELSE Walk(pts, l, q, h2)

\* ConvexHull::getHull as a function of the input vector.
getHull(pts) ==
    IF TooFew(pts) THEN [returned |-> TRUE, hull |-> <<>>]
    ELSE Walk(pts, Leftmost(pts), Leftmost(pts), <<>>)

Init ==
    /\ p1 = Origin /\ p2 = Origin /\ p3 = Origin /\ p4 = Origin
    /\ segpc = "idle" /\ ret = FALSE
    /\ \/ \E n \in 0..MaxN : points \in [1..n -> Point]
       \/ points = TestPoints
    /\ pc = "call"
    /\ leftmost = 0
    /\ p = 0
    /\ hull = <<>>

\* Line 15: the short input returns the empty vector at once.
ReturnEmpty ==
    /\ pc = "call"
    /\ TooFew(points)
    /\ pc' = "done"
    /\ hull' = <<>>
    /\ UNCHANGED <<points, leftmost, p>>
    /\ UNCHANGED segVars

\* Lines 17-23: find the leftmost index and start the walk there.
StartWalk ==
    /\ pc = "call"
    /\ ~TooFew(points)
    /\ leftmost' = Leftmost(points)
    /\ p' = Leftmost(points)
    /\ hull' = <<>>
    /\ pc' = "walk"
    /\ UNCHANGED points
    /\ UNCHANGED segVars

\* One iteration of the do-while, lines 25-31.
WalkStep ==
    /\ pc = "walk"
    /\ Len(hull) < HullCapacity
    /\ hull' = Append(hull, At(points, p))
    /\ p' = NextVertex(points, p)
    /\ pc' = IF p' # leftmost THEN "walk" ELSE "done"
    /\ UNCHANGED <<points, leftmost>>
    /\ UNCHANGED segVars

\* Line 25 when the vector cannot grow: push_back throws std::bad_alloc,
\* nothing catches it, getHull does not return.
BadAlloc ==
    /\ pc = "walk"
    /\ Len(hull) >= HullCapacity
    /\ pc' = "bad_alloc"
    /\ UNCHANGED <<points, leftmost, p, hull>>
    /\ UNCHANGED segVars

\* As Init, with the longer inputs.
DeepInit ==
    /\ p1 = Origin /\ p2 = Origin /\ p3 = Origin /\ p4 = Origin
    /\ segpc = "idle" /\ ret = FALSE
    /\ \E n \in 0..DeepN : points \in [1..n -> DeepPoint]
    /\ pc = "call"
    /\ leftmost = 0
    /\ p = 0
    /\ hull = <<>>

Next == ReturnEmpty \/ StartWalk \/ WalkStep \/ BadAlloc

Spec == Init /\ [][Next]_vars

DeepSpec == DeepInit /\ [][Next]_vars

(***************************************************************************)
(* SegmentIntersection                                                     *)
(***************************************************************************)
\* std::min, std::max on int
min(a, b) == IF b < a THEN b ELSE a

max(a, b) == IF a < b THEN b ELSE a

\* SegmentIntersection::direction
direction(a, b, c) == (c.y - a.y) * (b.x - a.x) - (c.x - a.x) * (b.y - a.y)

\* SegmentIntersection::on_segment
on_segment(a, b, r) ==
    /\ min(a.x, b.x) <= r.x /\ r.x <= max(a.x, b.x)
    /\ min(a.y, b.y) <= r.y /\ r.y <= max(a.y, b.y)

\* The condition of lines 31-32 as C++ parses it: && binds tighter than ||.
GeneralCase(d1, d2, d3, d4) ==
    \/ (d1 < 0 /\ d2 > 0)
    \/ ((d1 > 0 /\ d2 < 0) /\ (d3 < 0 /\ d4 > 0))
    \/ (d3 > 0 /\ d4 < 0)

\* SegmentIntersection::intersect
intersect(a1, a2, a3, a4) ==
    LET d1 == direction(a3, a4, a1)
        d2 == direction(a3, a4, a2)
        d3 == direction(a1, a2, a3)
        d4 == direction(a1, a2, a4)
    IN  IF GeneralCase(d1, d2, d3, d4) THEN TRUE
        ELSE IF d1 = 0 /\ on_segment(a3, a4, a1) THEN TRUE
        ELSE IF d2 = 0 /\ on_segment(a3, a4, a2) THEN TRUE
        ELSE IF d3 = 0 /\ on_segment(a1, a2, a3) THEN TRUE
        ELSE IF d4 = 0 /\ on_segment(a1, a2, a4) THEN TRUE
        ELSE FALSE

\* main, lines 68-74: four points read from the input.
SegInit ==
    /\ points = <<>> /\ pc = "idle" /\ leftmost = 0 /\ p = 0 /\ hull = <<>>
    /\ p1 \in DeepPoint /\ p2 \in DeepPoint /\ p3 \in DeepPoint /\ p4 \in DeepPoint
    /\ segpc = "call"
    /\ ret = FALSE

\* The call of line 76.
Intersect ==
    /\ segpc = "call"
    /\ ret' = intersect(p1, p2, p3, p4)
    /\ segpc' = "done"
    /\ UNCHANGED <<p1, p2, p3, p4>>
    /\ UNCHANGED hullVars

SegNext == Intersect

SegSpec == SegInit /\ [][SegNext]_vars

(***************************************************************************)
(* Geometry the claims are stated in, independent of the programs.         *)
(***************************************************************************)
Abs(n) == IF n < 0 THEN 0 - n ELSE n

\* z-component of (b - a) x (c - a)
Cross(a, b, c) == (b.x - a.x) * (c.y - a.y) - (b.y - a.y) * (c.x - a.x)

\* (a - r) . (b - r)
Dot(r, a, b) == (a.x - r.x) * (b.x - r.x) + (a.y - r.y) * (b.y - r.y)

\* r is a point of the closed segment ab.
Lies(a, b, r) == Cross(a, b, r) = 0 /\ Dot(r, a, b) <= 0

\* The closed segments a1a2 and a3a4 have a common point.  For directions
\* that are not parallel the lines meet in one point, whose parameters on
\* the two segments are fractions with denominator |D| (Cramer's rule); for
\* parallel directions a common point exists iff an endpoint is one.
SegmentsSharePoint(a1, a2, a3, a4) ==
    LET D == (a2.x - a1.x) * (a4.y - a3.y) - (a2.y - a1.y) * (a4.x - a3.x)
        m == Abs(D)
    IN  IF D # 0
        THEN \E s \in 0..m : \E t \in 0..m :
                /\ m * a1.x + s * (a2.x - a1.x) = m * a3.x + t * (a4.x - a3.x)
                /\ m * a1.y + s * (a2.y - a1.y) = m * a3.y + t * (a4.y - a3.y)
        ELSE \E r \in {a1, a2, a3, a4} : Lies(a1, a2, r) /\ Lies(a3, a4, r)

\* h is on the boundary of the convex hull of the points of pts: a line
\* through h has every point of pts in one closed half-plane.  When pts has
\* a point other than h, such a line can be turned about h until it passes
\* through one, so lines through h and another point of pts suffice.
OnBoundary(h, pts) ==
    \/ \A r \in Range(pts) : r = h
    \/ \E j \in Range(pts) :
          /\ j # h
          /\ \/ \A r \in Range(pts) : Cross(h, j, r) >= 0
             \/ \A r \in Range(pts) : Cross(h, j, r) <= 0

\* The rearrangements of a vector.
Permutations(pts) ==
    LET n == Len(pts)
        Bij == {f \in [1..n -> 1..n] : \A a, b \in 1..n : f[a] = f[b] => a = b}
    IN  {[k \in 1..n |-> pts[f[k]]] : f \in Bij}

\* The first index (from 0) of a point of minimum x.
FirstMinX(pts) ==
    CHOOSE i \in 0..(size(pts) - 1) :
        /\ \A j \in 0..(size(pts) - 1) : At(pts, i).x <= At(pts, j).x
        /\ \A j \in 0..(i - 1) : At(pts, i).x < At(pts, j).x

(***************************************************************************)
(* Claims                                                                  *)
(***************************************************************************)
\* C1: getHull terminates on every finite input: the walk started at the
\* leftmost index comes back to it after finitely many steps and returns.
\* The index the walk moves to is a function of p alone (NextVertex), so
\* the walk comes back to leftmost iff it does so before any index is
\* pushed twice, that is within size(points) iterations: while the loop
\* runs fewer than size(points) points have been pushed, and the storage of
\* the result is never exhausted.
C1_Terminates ==
    /\ pc = "walk" => Len(hull) < size(points)
    /\ pc # "bad_alloc"

\* C2: for an input of at least 3 points, no point of the returned hull is
\* interior to the convex hull of the input: each one is on its boundary.
C2_NoInteriorPoint ==
    (pc = "done" /\ size(points) >= 3) =>
        \A k \in 1..Len(hull) : OnBoundary(hull[k], points)

\* C3: intersect returns true exactly when the two closed segments have a
\* common point; in general position (no direction value zero) it returns
\* true only if d1, d2 have opposite signs and d3, d4 have opposite signs.
C3_IntersectExact ==
    segpc = "done" =>
        /\ ret <=> SegmentsSharePoint(p1, p2, p3, p4)
        /\ LET d1 == direction(p3, p4, p1)
               d2 == direction(p3, p4, p2)
               d3 == direction(p1, p2, p3)
               d4 == direction(p1, p2, p4)
           IN  (ret /\ d1 # 0 /\ d2 # 0 /\ d3 # 0 /\ d4 # 0) =>
                   (d1 * d2 < 0 /\ d3 * d4 < 0)

\* C4: on an input of fewer than 3 points getHull returns the empty
\* sequence and the walk is never entered.
C4_FewPointsEmpty ==
    size(points) < 3 =>
        /\ hull = <<>>
        /\ pc \in {"call", "done"}
        /\ p = 0 /\ leftmost = 0

\* C4 witness: getHull has returned on two distinct points.
C4_Witness ==
    /\ pc = "done"
    /\ size(points) = 2
    /\ points[1] # points[2]

\* C5: at every step every element of hull is an element of the input, and
\* the walk indices p and q (the index the next iteration moves to) are
\* within 0..n-1.
C5_MembershipAndIndexRange ==
    /\ \A k \in 1..Len(hull) : hull[k] \in Range(points)
    /\ pc \in {"walk", "done", "bad_alloc"} /\ size(points) >= 3 =>
          /\ p \in 0..(size(points) - 1)
          /\ leftmost \in 0..(size(points) - 1)
          /\ NextVertex(points, p) \in 0..(size(points) - 1)

\* C5 witness: a walk of at least 3 pushes has returned.
C5_Witness == pc = "done" /\ Len(hull) >= 3 /\ p = leftmost

\* C6: getHull returns the same set of points on an input and on every
\* rearrangement of it (compared wherever both calls return).
C6_PermutationInvariant ==
    pc = "done" =>
        \A perm \in Permutations(points) :
            getHull(perm).returned =>
                Range(getHull(perm).hull) = Range(hull)

\* C7: on the vector of the inline test getHull returns exactly
\* (0,3), (0,0), (3,0), (3,3).
C7_TestVector ==
    points = TestPoints =>
        /\ pc # "bad_alloc"
        /\ pc = "done" => hull = TestExpected
        /\ Len(hull) <= Len(TestExpected)

\* C7 witness: getHull has returned on the test vector.
C7_Witness == points = TestPoints /\ pc = "done"

\* C8: for an input of at least 3 points the first element of the hull is
\* the point of minimum x, the one of smallest index when several tie.
C8_FirstIsLeftmost ==
    (size(points) >= 3 /\ pc \in {"walk", "done", "bad_alloc"}) =>
        /\ leftmost = FirstMinX(points)
        /\ Len(hull) >= 1 => hull[1] = At(points, FirstMinX(points))

\* C8 witness: getHull has returned on an input where the minimum x is
\* shared by distinct points and the first of them is not at index 0.
C8_Witness ==
    /\ pc = "done"
    /\ size(points) >= 3
    /\ FirstMinX(points) > 0
    /\ \E j \in 0..(size(points) - 1) :
          /\ j > FirstMinX(points)
          /\ At(points, j).x = At(points, FirstMinX(points)).x
          /\ At(points, j) # At(points, FirstMinX(points))

\* C9: every edge p -> q the walk takes is a supporting edge of the input:
\* when the inner scan ends no index i has
\* orientation(points[p], points[i], points[q]) == 2.
C9_SupportingEdges ==
    [][WalkStep =>
        \A i \in 0..(size(points) - 1) :
            orientation(At(points, p), At(points, i), At(points, p')) # 2]_vars

\* C10: for an input of at least 3 points the last point of the returned
\* hull differs from its first point.
C10_NotClosed ==
    (pc = "done" /\ size(points) >= 3) => hull[Len(hull)] # hull[1]

====
